---- MODULE Spec2Model ----
(***************************************************************************)
(* Model of the two maintenance scripts of the repository:                 *)
(*   clean_xcode_references.py  (the reference cleaner)                    *)
(*   update_project_files.py    (the structure checker)                    *)
(*                                                                         *)
(* A text is a sequence of tokens.  A token is a string that stands for    *)
(* itself: a removal-list filename, the words "in " and "Sources", a       *)
(* filename that differs from a removal-list filename only where that one  *)
(* has its dot, one other character, and the two line-terminator           *)
(* characters.  The length of a text in characters is the sum of the       *)
(* lengths of its tokens.                                                  *)
(***************************************************************************)
EXTENDS Integers, Sequences, FiniteSets, TLC

\* ------------------------------------------------------------------ bounds
MaxLen == 4        \* longest text given to the substitution loop alone
MaxFileLen == 4    \* longest manifest file of the sequential runs
MaxConcLen == 2    \* longest manifest file of the two interleaved runs
MaxRuns == 2       \* cleaner runs in a row

\* ------------------------------------------------------------- the tokens
NL == "\n"
CR == "\r"

\* clean_xcode_references.py:26-32
old_files ==
  << "OldEnhancedSpotifyManager.swift",
     "OldUnifiedSpotifyManager.swift",
     "OldPersistentSpotifyView.swift",
     "OldSpotifyManager.swift",
     "OldSimpleSpotifyManager.swift" >>

OldFileSet == { old_files[i] : i \in DOMAIN old_files }

\* a name that an unescaped '.' in the pattern would also match
NearMiss == "OldSpotifyManager_swift"

\* the tokens of the texts given to the substitution loop alone
Alphabet == { old_files[1], old_files[4], "in ", "Sources", NearMiss, "x", NL }

RECURSIVE SeqsUpTo(_, _)
SeqsUpTo(S, n) ==
  IF n = 0 THEN { << >> }
  ELSE LET shorter == SeqsUpTo(S, n - 1)
       IN  shorter \cup { Append(t, c) : t \in { u \in shorter : Len(u) = n - 1 }, c \in S }

\* len(content): the number of characters of a text
RECURSIVE CharLen(_)
CharLen(t) == IF t = << >> THEN 0 ELSE Len(Head(t)) + CharLen(Tail(t))

\* ---------------------------------------------------- regular expressions
\* A pattern is a sequence of items: [k |-> "dotstar"] is '.*' and
\* [k |-> "lit", c |-> S] matches exactly one token of the set S.
DotStar == [k |-> "dotstar", c |-> { }]
Lit(tok) == [k |-> "lit", c |-> { tok }]

\* the pattern old_file is without escaping: its '.' matches any character
Unescaped(f) ==
  << [k |-> "lit", c |-> IF f = "OldSpotifyManager.swift" THEN { f, NearMiss } ELSE { f }] >>

\* re.escape(old_file): the pattern that matches old_file literally
re_escape(f) == << Lit(f) >>

\* rf'.*{re.escape(old_file)}.*in Sources.*\n'
PatInSources(f) ==
  << DotStar >> \o re_escape(f) \o << DotStar, Lit("in "), Lit("Sources"), DotStar, Lit(NL) >>

\* rf'.*{re.escape(old_file)}.*\n'
PatAny(f) == << DotStar >> \o re_escape(f) \o << DotStar, Lit(NL) >>

\* rf'.*{re.escape(old_file)}.*Sources.*\n'
PatSources(f) ==
  << DotStar >> \o re_escape(f) \o << DotStar, Lit("Sources"), DotStar, Lit(NL) >>

\* '.' matches any character except a newline (no DOTALL flag)
DotMatches(c) == c # NL

\* the number of characters from position p on that '.' matches in a row
RECURSIVE DotRun(_, _)
DotRun(s, p) ==
  IF p > Len(s) \/ ~DotMatches(s[p]) THEN 0 ELSE 1 + DotRun(s, p + 1)

\* Backtracking match of the items pat at position p of s: the position
\* right after the match, or 0 when there is none.  '.*' is greedy: it
\* first takes the longest run and gives characters back one at a time.
RECURSIVE MatchAt(_, _, _)
RECURSIVE GiveBack(_, _, _, _)
MatchAt(pat, s, p) ==
  IF pat = << >> THEN p
  ELSE IF Head(pat).k = "lit"
       THEN IF p <= Len(s) /\ s[p] \in Head(pat).c THEN MatchAt(Tail(pat), s, p + 1) ELSE 0
       ELSE GiveBack(Tail(pat), s, p, DotRun(s, p))
GiveBack(rest, s, p, n) ==
  LET e == MatchAt(rest, s, p + n)
  IN  IF e # 0 THEN e
      ELSE IF n = 0 THEN 0
      ELSE GiveBack(rest, s, p, n - 1)

\* The spans <<first, last>> that re.sub(pat, '', s) deletes: the leftmost
\* match from each scan position, the scan resuming after a match.
RECURSIVE SubSpans(_, _, _)
SubSpans(pat, s, p) ==
  IF p > Len(s) THEN { }
  ELSE LET e == MatchAt(pat, s, p)
       IN  IF e # 0 THEN { << p, e - 1 >> } \cup SubSpans(pat, s, e)
           ELSE SubSpans(pat, s, p + 1)

\* re.sub(pat, '', s, count=1): only the first match is deleted
RECURSIVE ReSubFirstFrom(_, _, _)
ReSubFirstFrom(pat, s, p) ==
  IF p > Len(s) THEN << >>
  ELSE LET e == MatchAt(pat, s, p)
       IN  IF e # 0 THEN SubSeq(s, e, Len(s))
           ELSE << s[p] >> \o ReSubFirstFrom(pat, s, p + 1)

re_sub_first(pat, s) == ReSubFirstFrom(pat, s, 1)

\* re.sub(pat, '', s)
RECURSIVE ReSubFrom(_, _, _)
ReSubFrom(pat, s, p) ==
  IF p > Len(s) THEN << >>
  ELSE LET e == MatchAt(pat, s, p)
       IN  IF e # 0 THEN ReSubFrom(pat, s, e)
           ELSE << s[p] >> \o ReSubFrom(pat, s, p + 1)

re_sub(pat, s) == ReSubFrom(pat, s, 1)

\* the three substitutions of one loop iteration, lines 39, 41, 43
Patterns(f) == << PatInSources(f), PatAny(f), PatSources(f) >>

\* one iteration of the loop: the substitutions of f applied in order
RECURSIVE ApplyAll(_, _)
ApplyAll(pats, s) ==
  IF pats = << >> THEN s ELSE ApplyAll(Tail(pats), re_sub(Head(pats), s))

LoopBody(f, s) == ApplyAll(Patterns(f), s)

\* lines 37-43: the loop from its i-th iteration on
RECURSIVE LoopFrom(_, _)
LoopFrom(i, s) ==
  IF i > Len(old_files) THEN s ELSE LoopFrom(i + 1, LoopBody(old_files[i], s))

CleanText(s) == LoopFrom(1, s)

\* every pattern of the loop in the order it is applied
RECURSIVE AllPatterns(_)
AllPatterns(i) ==
  IF i > Len(old_files) THEN << >> ELSE Patterns(old_files[i]) \o AllPatterns(i + 1)

\* the successive values of content: before the loop and after each re.sub
RECURSIVE Stages(_, _)
Stages(pats, s) ==
  << s >> \o (IF pats = << >> THEN << >> ELSE Stages(Tail(pats), re_sub(Head(pats), s)))

\* the spans each re.sub of the loop deletes from the value it is given
RECURSIVE StageSpans(_, _)
StageSpans(pats, s) ==
  IF pats = << >> THEN << >>
  ELSE << SubSpans(Head(pats), s, 1) >> \o StageSpans(Tail(pats), re_sub(Head(pats), s))

\* ------------------------------------------------------------------ files
\* A file is absent, or present with its bytes.
NoFile == [exists |-> FALSE, data |-> << >>]
File(d) == [exists |-> TRUE, data |-> d]

\* open(project_file, 'r').read(): text mode with universal newlines, so
\* '\r\n' and a lone '\r' are read as '\n'
RECURSIVE ReadText(_)
ReadText(b) ==
  IF b = << >> THEN << >>
  ELSE IF Head(b) = CR
       THEN << NL >> \o ReadText(IF Len(b) > 1 /\ b[2] = NL THEN Tail(Tail(b)) ELSE Tail(b))
       ELSE << Head(b) >> \o ReadText(Tail(b))

\* os.linesep of the platform of the hard-coded /Users/... path
linesep == << NL >>

\* f.write(content) in text mode: each '\n' is written as os.linesep
RECURSIVE WriteText(_)
WriteText(t) ==
  IF t = << >> THEN << >>
  ELSE (IF Head(t) = NL THEN linesep ELSE << Head(t) >>) \o WriteText(Tail(t))

\* an open that truncates the file in every mode
AfterOpenTruncating(mode, d) == << >>

\* what open(project_file, mode) leaves in the file: 'w' truncates it
AfterOpen(mode, d) == IF mode = "w" THEN << >> ELSE d

\* a copy through text mode, which rewrites the line terminators
Copy2AsText(src, dst) == File(WriteText(ReadText(src.data)))

\* a copy that leaves a backup that is already there alone
Copy2KeepExisting(src, dst) == IF dst.exists THEN dst ELSE File(src.data)

\* shutil.copy2(project_file, backup_file): the backup's bytes afterwards,
\* whatever the backup was before
Copy2(src, dst) == File(src.data)

\* the comparison the wrong way round
LengthSame(c, n) == CharLen(c) = n

\* line 45: len(content) != original_length
LengthChanged(c, n) == CharLen(c) # n

\* the length that is left instead of the length that was removed
RemainingCount(c, n) == CharLen(c)

\* line 49: original_length - len(content)
CleanedCount(c, n) == n - CharLen(c)

\* a write of bytes at offset 0 of a file that holds old: the handle was
\* opened at offset 0 and bytes past the written ones stay
WriteAt0(old, bytes) == bytes \o SubSeq(old, Len(bytes) + 1, Len(old))

\* ------------------------------------------------------------ the state
Procs == { 1, 2 }

VARIABLES
  manifest,         \* project.pbxproj
  manifest0,        \* history: project.pbxproj before any run
  backup,           \* project.pbxproj.backup
  pc,               \* per process: the line it is about to execute
  content,          \* per process: the local content
  original_length,  \* per process: the local original_length
  idx,              \* per process: the loop's position in old_files
  ret,              \* per process: what clean_xcode_references returned
  out,              \* per process: what the run printed
  started,          \* history: the manifest when the run started
  startedBk,        \* history: the backup when the run started
  log,              \* history: the file operations, in order
  runs,             \* history: the number of runs started
  prev,             \* history: how the run before this one ended
  killedAt,         \* history: where a run was interrupted
  fnIn, fnOut, fnStages, fnSpans, fnDone,       \* the loop applied to a text
  present, cpc, ci, all_exist, cret, cout       \* the structure checker

cleanerVars ==
  << manifest, manifest0, backup, pc, content, original_length, idx, ret, out,
     started, startedBk, log, runs, prev, killedAt >>
fnVars == << fnIn, fnOut, fnStages, fnSpans, fnDone >>
checkerVars == << present, cpc, ci, all_exist, cret, cout >>
vars == << cleanerVars, fnVars, checkerVars >>

Msg(m, n) == [msg |-> m, n |-> n]

NotKilled == [pc |-> "", idx |-> 0]

NoPrev == [valid |-> FALSE, m |-> NoFile, ret |-> "none"]

\* ------------------------------------------------- the reference cleaner
\* lines 56-59: the script is invoked
Start(self) ==
  /\ pc[self] \in { "idle", "done", "killed" }
  /\ runs < MaxRuns
  /\ runs' = runs + 1
  /\ pc' = [pc EXCEPT ![self] = "l12"]
  /\ out' = [out EXCEPT ![self] = << Msg("header", 0) >>]
  /\ ret' = [ret EXCEPT ![self] = "none"]
  /\ content' = [content EXCEPT ![self] = << >>]
  /\ original_length' = [original_length EXCEPT ![self] = 0]
  /\ idx' = [idx EXCEPT ![self] = 0]
  /\ started' = [started EXCEPT ![self] = manifest]
  /\ startedBk' = [startedBk EXCEPT ![self] = backup]
  /\ log' = SelectSeq(log, LAMBDA e : e[1] # self)
  /\ prev' = [prev EXCEPT ![self] =
                IF pc[self] = "done"
                THEN [valid |-> TRUE, m |-> manifest, ret |-> ret[self]]
                ELSE NoPrev]
  /\ killedAt' = [killedAt EXCEPT ![self] = NotKilled]
  /\ UNCHANGED << manifest, manifest0, backup >>

\* a check that takes every path to exist
PathExistsAlways(f) == TRUE

\* Path.exists()
PathExists(f) == f.exists

\* lines 12-14: project_file.exists()
Exists(self) ==
  /\ pc[self] = "l12"
  /\ log' = Append(log, << self, "exists" >>)
  /\ IF PathExists(manifest)
     THEN /\ pc' = [pc EXCEPT ![self] = "l18"]
          /\ UNCHANGED << out, ret >>
     ELSE /\ out' = [out EXCEPT ![self] = Append(@, Msg("not found", 0))]
          /\ ret' = [ret EXCEPT ![self] = "False"]
          /\ pc' = [pc EXCEPT ![self] = "done"]
  /\ UNCHANGED << manifest, manifest0, backup, content, original_length, idx,
                  started, startedBk, runs, prev, killedAt >>

\* lines 17-19: the backup copy
Copy(self) ==
  /\ pc[self] = "l18"
  /\ backup' = Copy2(manifest, backup)
  /\ out' = [out EXCEPT ![self] = Append(@, Msg("created backup", 0))]
  /\ log' = Append(log, << self, "copy" >>)
  /\ pc' = [pc EXCEPT ![self] = "l22"]
  /\ UNCHANGED << manifest, manifest0, content, original_length, idx, ret,
                  started, startedBk, runs, prev, killedAt >>

\* lines 22-35: read the manifest, note its length
Read(self) ==
  /\ pc[self] = "l22"
  /\ LET d == AfterOpen("r", manifest.data)
     IN  /\ manifest' = File(d)
         /\ content' = [content EXCEPT ![self] = ReadText(d)]
         /\ original_length' = [original_length EXCEPT ![self] = CharLen(ReadText(d))]
  /\ idx' = [idx EXCEPT ![self] = 1]
  /\ log' = Append(log, << self, "read" >>)
  /\ pc' = [pc EXCEPT ![self] = "l37"]
  /\ UNCHANGED << manifest0, backup, ret, out, started, startedBk, runs, prev, killedAt >>

\* lines 37-43: one iteration of the loop over old_files
LoopIter(self) ==
  /\ pc[self] = "l37"
  /\ idx[self] <= Len(old_files)
  /\ content' = [content EXCEPT ![self] = LoopBody(old_files[idx[self]], @)]
  /\ idx' = [idx EXCEPT ![self] = @ + 1]
  /\ UNCHANGED << manifest, manifest0, backup, pc, original_length, ret, out,
                  started, startedBk, log, runs, prev, killedAt >>

\* lines 45-47 and 52-54: the loop is over; compare the lengths, then
\* either open the manifest for writing or report that nothing was found
Compare(self) ==
  /\ pc[self] = "l37"
  /\ idx[self] > Len(old_files)
  /\ IF LengthChanged(content[self], original_length[self])
     THEN /\ manifest' = File(AfterOpen("w", manifest.data))
          /\ log' = Append(log, << self, "open w" >>)
          /\ pc' = [pc EXCEPT ![self] = "l48"]
          /\ UNCHANGED << out, ret >>
     ELSE /\ out' = [out EXCEPT ![self] = Append(@, Msg("no references found", 0))]
          /\ ret' = [ret EXCEPT ![self] = "False"]
          /\ pc' = [pc EXCEPT ![self] = "done"]
          /\ UNCHANGED << manifest, log >>
  /\ UNCHANGED << manifest0, backup, content, original_length, idx,
                  started, startedBk, runs, prev, killedAt >>

\* lines 48-51: write the cleaned content, report, return True
Write(self) ==
  /\ pc[self] = "l48"
  /\ manifest' = File(WriteAt0(manifest.data, WriteText(content[self])))
  /\ log' = Append(log, << self, "write" >>)
  /\ out' = [out EXCEPT ![self] =
               @ \o << Msg("cleaned", CleanedCount(content[self], original_length[self])),
                       Msg("now clean build folder", 0) >>]
  /\ ret' = [ret EXCEPT ![self] = "True"]
  /\ pc' = [pc EXCEPT ![self] = "done"]
  /\ UNCHANGED << manifest0, backup, content, original_length, idx,
                  started, startedBk, runs, prev, killedAt >>

\* the process is interrupted in the middle of a run; its memory is gone
Interrupt(self) ==
  /\ pc[self] \in { "l12", "l18", "l22", "l37", "l48" }
  /\ killedAt' = [killedAt EXCEPT ![self] = [pc |-> pc[self], idx |-> idx[self]]]
  /\ pc' = [pc EXCEPT ![self] = "killed"]
  /\ content' = [content EXCEPT ![self] = << >>]
  /\ original_length' = [original_length EXCEPT ![self] = 0]
  /\ idx' = [idx EXCEPT ![self] = 0]
  /\ UNCHANGED << manifest, manifest0, backup, ret, out, started, startedBk, log, runs, prev >>

\* the manifests the runs start from
FileAlphabet == { old_files[1], old_files[4], "x", NL, CR }

Manifests(n) == { NoFile } \cup { File(d) : d \in SeqsUpTo(FileAlphabet, n) }

CleanerIdle ==
  /\ pc = [p \in Procs |-> "idle"]
  /\ content = [p \in Procs |-> << >>]
  /\ original_length = [p \in Procs |-> 0]
  /\ idx = [p \in Procs |-> 0]
  /\ ret = [p \in Procs |-> "none"]
  /\ out = [p \in Procs |-> << >>]
  /\ started = [p \in Procs |-> NoFile]
  /\ startedBk = [p \in Procs |-> NoFile]
  /\ log = << >>
  /\ runs = 0
  /\ prev = [p \in Procs |-> NoPrev]
  /\ killedAt = [p \in Procs |-> NotKilled]

FnIdle ==
  /\ fnIn = << >>
  /\ fnOut = << >>
  /\ fnStages = << >>
  /\ fnSpans = << >>
  /\ fnDone = FALSE

CheckerIdle ==
  /\ present = { }
  /\ cpc = "idle"
  /\ ci = 0
  /\ all_exist = FALSE
  /\ cret = "none"
  /\ cout = << >>

\* runs of the cleaner one after the other, each possibly interrupted
Init ==
  /\ manifest \in Manifests(MaxFileLen)
  /\ manifest0 = manifest
  /\ backup \in { NoFile, File(<< "x" >>) }
  /\ CleanerIdle /\ FnIdle /\ CheckerIdle

Next ==
  \/ Start(1) /\ UNCHANGED << fnVars, checkerVars >>
  \/ Exists(1) /\ UNCHANGED << fnVars, checkerVars >>
  \/ Copy(1) /\ UNCHANGED << fnVars, checkerVars >>
  \/ Read(1) /\ UNCHANGED << fnVars, checkerVars >>
  \/ LoopIter(1) /\ UNCHANGED << fnVars, checkerVars >>
  \/ Compare(1) /\ UNCHANGED << fnVars, checkerVars >>
  \/ Write(1) /\ UNCHANGED << fnVars, checkerVars >>
  \/ Interrupt(1) /\ UNCHANGED << fnVars, checkerVars >>

Spec == Init /\ [][Next]_vars

\* --------------------------------------------- two runs at the same time
InitConc ==
  /\ manifest \in Manifests(MaxConcLen)
  /\ manifest0 = manifest
  /\ backup = NoFile
  /\ CleanerIdle /\ FnIdle /\ CheckerIdle

NextConc ==
  \E self \in Procs :
    \/ pc[self] = "idle" /\ Start(self) /\ UNCHANGED << fnVars, checkerVars >>
    \/ Exists(self) /\ UNCHANGED << fnVars, checkerVars >>
    \/ Copy(self) /\ UNCHANGED << fnVars, checkerVars >>
    \/ Read(self) /\ UNCHANGED << fnVars, checkerVars >>
    \/ LoopIter(self) /\ UNCHANGED << fnVars, checkerVars >>
    \/ Compare(self) /\ UNCHANGED << fnVars, checkerVars >>
    \/ Write(self) /\ UNCHANGED << fnVars, checkerVars >>

SpecConc == InitConc /\ [][NextConc]_vars

\* ------------------------------------------- the loop applied to a text
InitFn ==
  /\ fnIn \in SeqsUpTo(Alphabet, MaxLen)
  /\ fnOut = << >>
  /\ fnStages = << >>
  /\ fnSpans = << >>
  /\ fnDone = FALSE
  /\ manifest = NoFile /\ manifest0 = NoFile /\ backup = NoFile
  /\ CleanerIdle /\ CheckerIdle

\* lines 37-43 applied to fnIn
ApplyLoop ==
  /\ ~fnDone
  /\ fnOut' = CleanText(fnIn)
  /\ fnStages' = Stages(AllPatterns(1), fnIn)
  /\ fnSpans' = StageSpans(AllPatterns(1), fnIn)
  /\ fnDone' = TRUE
  /\ UNCHANGED << fnIn, cleanerVars, checkerVars >>

NextFn == ApplyLoop

SpecFn == InitFn /\ [][NextFn]_vars

\* ------------------------------------------------ the structure checker
\* update_project_files.py:55-60
key_files ==
  << "App/FrequencyFinder.swift",
     "Core/Models/Spotify/SpotifyModels.swift",
     "Core/Services/Spotify/SpotifyManager.swift",
     "Features/Spotify/Views/SpotifyView.swift" >>

KeyFileSet == { key_files[i] : i \in DOMAIN key_files }

CMsg(m, f) == [msg |-> m, f |-> f]

\* lines 82-93: the confirmation and the manual steps
Instructions ==
  << CMsg("verified", ""), CMsg("manual steps needed", ""),
     CMsg("should then build", ""), CMsg("tip", "") >>

\* all_exist taking the value of the last check alone
AllExistLast(all, found) == found

\* lines 62-69: all_exist stays True only while every file is found
AllExistAfter(all, found) == IF found THEN all ELSE FALSE

\* lines 74-75 and 78: main prints its header and calls check_new_structure
MainStart ==
  /\ cpc = "idle"
  /\ cout' = << CMsg("header", "") >>
  /\ cpc' = "l53"
  /\ UNCHANGED << present, ci, all_exist, cret, cleanerVars, fnVars >>

\* lines 51-62: check_new_structure up to its loop
CheckBegin ==
  /\ cpc = "l53"
  /\ cout' = Append(cout, CMsg("checking", ""))
  /\ all_exist' = TRUE
  /\ ci' = 1
  /\ cpc' = "l63"
  /\ UNCHANGED << present, cret, cleanerVars, fnVars >>

\* lines 63-69: one iteration of the loop over key_files
CheckFile ==
  /\ cpc = "l63"
  /\ ci <= Len(key_files)
  /\ LET found == key_files[ci] \in present
     IN  /\ cout' = Append(cout, CMsg(IF found THEN "ok" ELSE "missing", key_files[ci]))
         /\ all_exist' = AllExistAfter(all_exist, found)
  /\ ci' = ci + 1
  /\ UNCHANGED << present, cpc, cret, cleanerVars, fnVars >>

\* line 71: return all_exist
CheckReturn ==
  /\ cpc = "l63"
  /\ ci > Len(key_files)
  /\ cret' = IF all_exist THEN "True" ELSE "False"
  /\ cpc' = "l78"
  /\ UNCHANGED << present, ci, all_exist, cout, cleanerVars, fnVars >>

\* lines 78-93: main after the check
MainBranch ==
  /\ cpc = "l78"
  /\ cout' = IF cret # "True" THEN Append(cout, CMsg("incomplete", ""))
             ELSE cout \o Instructions
  /\ cpc' = "done"
  /\ UNCHANGED << present, ci, all_exist, cret, cleanerVars, fnVars >>

InitChk ==
  /\ present \in SUBSET KeyFileSet
  /\ cpc = "idle"
  /\ ci = 0
  /\ all_exist = FALSE
  /\ cret = "none"
  /\ cout = << >>
  /\ manifest = NoFile /\ manifest0 = NoFile /\ backup = NoFile
  /\ CleanerIdle /\ FnIdle

NextChk == MainStart \/ CheckBegin \/ CheckFile \/ CheckReturn \/ MainBranch

SpecChk == InitChk /\ [][NextChk]_vars

\* =================================================== reference notions
\* a removal-list filename occurs in t
HasOld(t) == \E i \in 1..Len(t) : t[i] \in OldFileSet

\* the position of the first newline of t, 0 when it has none
FirstNL(t) ==
  IF \E i \in 1..Len(t) : t[i] = NL
  THEN CHOOSE i \in 1..Len(t) : t[i] = NL /\ \A j \in 1..(i - 1) : t[j] # NL
  ELSE 0

\* the line filter: drop each newline-terminated line in which a
\* removal-list filename occurs, keep the rest, the unterminated end included
RECURSIVE LineFilter(_)
LineFilter(t) ==
  LET e == FirstNL(t)
  IN  IF e = 0 THEN t
      ELSE (IF HasOld(SubSeq(t, 1, e)) THEN << >> ELSE SubSeq(t, 1, e))
           \o LineFilter(SubSeq(t, e + 1, Len(t)))

\* the same filter that also drops an unterminated last line with a filename
RECURSIVE EveryLineFilter(_)
EveryLineFilter(t) ==
  LET e == FirstNL(t)
  IN  IF e = 0 THEN (IF HasOld(t) THEN << >> ELSE t)
      ELSE (IF HasOld(SubSeq(t, 1, e)) THEN << >> ELSE SubSeq(t, 1, e))
           \o EveryLineFilter(SubSeq(t, e + 1, Len(t)))

\* the characters of the newline-terminated lines with a filename
RECURSIVE RemovedLen(_)
RemovedLen(t) ==
  LET e == FirstNL(t)
  IN  IF e = 0 THEN 0
      ELSE (IF HasOld(SubSeq(t, 1, e)) THEN CharLen(SubSeq(t, 1, e)) ELSE 0)
           + RemovedLen(SubSeq(t, e + 1, Len(t)))

\* the unterminated end of t
RECURSIVE LastPart(_)
LastPart(t) ==
  LET e == FirstNL(t) IN IF e = 0 THEN t ELSE LastPart(SubSeq(t, e + 1, Len(t)))

IsPrefix(a, b) == Len(a) <= Len(b) /\ a = SubSeq(b, 1, Len(a))

\* the file operations of process p so far, in order
RECURSIVE OpNames(_)
OpNames(l) == IF l = << >> THEN << >> ELSE << Head(l)[2] >> \o OpNames(Tail(l))
OpsOf(p) == OpNames(SelectSeq(log, LAMBDA e : e[1] = p))

Wrote(p) == \E i \in 1..Len(log) : log[i][1] = p /\ log[i][2] \in { "open w", "write" }

Printed(p, m) == \E i \in 1..Len(out[p]) : out[p][i].msg = m

\* a run of process 1 on an existing manifest has returned
RanOnManifest == pc[1] = "done" /\ started[1].exists

\* ============================================================== claims
\* C1: after a run on an existing manifest, no line of the manifest
\* contains a removal-list filename, and the lines without one are all
\* still there, unchanged and in their order.
C1_AllReferencesRemoved ==
  RanOnManifest =>
    /\ ~HasOld(manifest.data)
    /\ manifest.data = EveryLineFilter(started[1].data)

\* C2: a run on an existing manifest in which no removal-list filename
\* occurs does not write the manifest, reports that no references were
\* found and returns False.
C2_NothingToRemove ==
  (RanOnManifest /\ ~HasOld(started[1].data)) =>
    /\ manifest = started[1]
    /\ ~Wrote(1)
    /\ out[1] = << Msg("header", 0), Msg("created backup", 0), Msg("no references found", 0) >>
    /\ ret[1] = "False"

C2_Witness ==
  /\ RanOnManifest /\ ~HasOld(started[1].data)
  /\ Len(started[1].data) = MaxFileLen
  /\ \E i \in 1..Len(started[1].data) : started[1].data[i] = NL

\* C3: the run that follows a finished run on an existing manifest leaves
\* the manifest as that run left it, does not write, reports that no
\* references were found and returns False.
C3_Idempotent ==
  (pc[1] = "done" /\ prev[1].valid /\ prev[1].m.exists) =>
    /\ manifest = prev[1].m
    /\ ~Wrote(1)
    /\ Printed(1, "no references found")
    /\ ret[1] = "False"

C3_Witness ==
  /\ pc[1] = "done" /\ prev[1].valid /\ prev[1].m.exists
  /\ prev[1].ret = "True"
  /\ prev[1].m # manifest0
  /\ HasOld(manifest.data)

\* C4: after each run that found the manifest, the backup is the manifest
\* as it was when that run started, whether or not the run wrote the
\* manifest and whatever the backup was before.
C4_BackupIsStart == RanOnManifest => backup = started[1]

C4_Witness ==
  /\ RanOnManifest
  /\ startedBk[1].exists /\ startedBk[1] # started[1]
  /\ backup = started[1]
  /\ manifest # started[1]
  /\ \E i \in 1..Len(started[1].data) : started[1].data[i] = CR

\* C5: a run that starts with no manifest creates no manifest and leaves
\* the backup as it was, at every step, and ends reporting the failure and
\* returning False.
C5_MissingManifest ==
  (runs > 0 /\ ~started[1].exists) =>
    /\ manifest = NoFile
    /\ backup = startedBk[1]
    /\ ~Wrote(1)
    /\ pc[1] = "done" => /\ ret[1] = "False"
                         /\ out[1] = << Msg("header", 0), Msg("not found", 0) >>

C5_Witness ==
  /\ pc[1] = "done" /\ runs > 0 /\ ~started[1].exists
  /\ backup.exists /\ ret[1] = "False"

\* C6: a run on an existing manifest writes the manifest and returns True
\* exactly when a line was removed; it then leaves the cleaned text in the
\* manifest and reports original length minus cleaned length, which is the
\* length of the removed lines with their terminators.
C6_WriteIffRemoved ==
  RanOnManifest =>
    LET t == ReadText(started[1].data)
    IN  /\ (ret[1] = "True") <=> (LineFilter(t) # t)
        /\ (ret[1] = "True") <=> Wrote(1)
        /\ ret[1] \in { "True", "False" }
        /\ ret[1] = "True" =>
             /\ manifest = File(WriteText(LineFilter(t)))
             /\ out[1] = << Msg("header", 0), Msg("created backup", 0),
                            Msg("cleaned", CharLen(t) - CharLen(LineFilter(t))),
                            Msg("now clean build folder", 0) >>
             /\ CharLen(t) - CharLen(LineFilter(t)) = RemovedLen(t)
             /\ RemovedLen(t) > 0

C6_Witness ==
  /\ RanOnManifest /\ ret[1] = "True"
  /\ manifest.data # << >>
  /\ Printed(1, "cleaned")

\* C8: in a run the file operations happen in the order existence check,
\* copy, read, open for writing, write, each at most once; the backup is
\* complete before the read; the manifest is opened for writing only when
\* the loop has gone through all of old_files; and at every point before
\* that open, also when the run is interrupted there, the manifest is as
\* it was when the run started.
BeforeOverwrite ==
  \/ pc[1] \in { "l12", "l18", "l22", "l37" }
  \/ pc[1] = "killed" /\ killedAt[1].pc \in { "l12", "l18", "l22", "l37" }

C8_OrderAndInterrupt ==
  /\ IsPrefix(OpsOf(1), << "exists", "copy", "read", "open w", "write" >>)
  /\ Len(OpsOf(1)) >= 3 => backup = started[1]
  /\ pc[1] = "l48" => /\ idx[1] = Len(old_files) + 1
                      /\ content[1] = CleanText(ReadText(started[1].data))
  /\ BeforeOverwrite => manifest = started[1]

C8_Witness ==
  /\ pc[1] = "killed"
  /\ killedAt[1].pc = "l37" /\ killedAt[1].idx = Len(old_files) + 1
  /\ LineFilter(ReadText(started[1].data)) # ReadText(started[1].data)
  /\ manifest = started[1]

\* C9: nothing keeps two runs apart.  When both have returned, the manifest
\* had a removable line, and the copy made last came after the other run
\* had opened the manifest for writing, the backup is not the manifest from
\* before the runs: it holds text with nothing left to remove.
LastCopy == CHOOSE i \in 1..Len(log) : log[i][2] = "copy" /\ \A j \in (i + 1)..Len(log) : log[j][2] # "copy"

CopyAfterOpen ==
  /\ \E i \in 1..Len(log) : log[i][2] = "copy"
  /\ \E j \in 1..LastCopy : log[j][2] = "open w" /\ log[j][1] # log[LastCopy][1]

BothDone == pc[1] = "done" /\ pc[2] = "done"

C9_BackupRace ==
  (BothDone /\ manifest0.exists /\ CopyAfterOpen) =>
    /\ backup.exists
    /\ backup # manifest0
    /\ LineFilter(ReadText(backup.data)) = ReadText(backup.data)

C9_Witness ==
  /\ BothDone
  /\ LineFilter(ReadText(manifest0.data)) # ReadText(manifest0.data)
  /\ backup.exists /\ backup # manifest0
  /\ ret[1] \in { "True", "False" } /\ ret[2] \in { "True", "False" }

\* C10: the loop is the line filter.  Its result is the text without the
\* newline-terminated lines in which a removal-list filename occurs; every
\* span a substitution deletes starts at the beginning of a line and ends
\* with that line's terminator; the 'in Sources' pattern deletes only what
\* the plain pattern would delete from the same text, the 'Sources' pattern
\* deletes nothing after it, and the plain pattern alone gives the same
\* result; the unterminated end of the text is kept.
OnlyAnyPatterns(f) == << PatAny(f) >>

RECURSIVE OnlyAnyFrom(_, _)
OnlyAnyFrom(i, s) ==
  IF i > Len(old_files) THEN s
  ELSE OnlyAnyFrom(i + 1, ApplyAll(OnlyAnyPatterns(old_files[i]), s))

WholeLine(t, sp) ==
  /\ sp[1] = 1 \/ t[sp[1] - 1] = NL
  /\ t[sp[2]] = NL
  /\ \A j \in sp[1]..(sp[2] - 1) : t[j] # NL

C10_LoopIsLineFilter ==
  fnDone =>
    /\ fnOut = LineFilter(fnIn)
    /\ fnOut = fnStages[Len(fnStages)]
    /\ Len(fnSpans) = 3 * Len(old_files)
    /\ \A n \in 1..Len(fnSpans) :
         /\ \A sp \in fnSpans[n] : WholeLine(fnStages[n], sp)
         /\ n % 3 = 1 =>
              fnSpans[n] \subseteq SubSpans(PatAny(old_files[(n + 2) \div 3]), fnStages[n], 1)
         /\ n % 3 = 0 => fnSpans[n] = { }
    /\ fnOut = OnlyAnyFrom(1, fnIn)
    /\ LastPart(fnOut) = LastPart(fnIn)

C10_Witness ==
  /\ fnDone
  /\ fnIn # << >>
  /\ fnIn[1] \notin OldFileSet
  /\ \E n \in 1..Len(fnSpans) : \E sp \in fnSpans[n] : sp[1] = 1 /\ sp[2] > 2
  /\ HasOld(LastPart(fnOut))

\* C7: check_new_structure prints, for each of the four key files in
\* order, a checkmark when it exists and a cross when it does not, and
\* returns True exactly when all four exist; main then prints the
\* instructions when the result is True and otherwise the 'incomplete'
\* message and nothing more.
FileLine(i) == CMsg(IF key_files[i] \in present THEN "ok" ELSE "missing", key_files[i])

C7_ChecksAllFour ==
  /\ cpc \in { "l78", "done" } =>
       /\ SubSeq(cout, 1, 6) =
            << CMsg("header", ""), CMsg("checking", ""),
               FileLine(1), FileLine(2), FileLine(3), FileLine(4) >>
       /\ (cret = "True") <=> (KeyFileSet \subseteq present)
       /\ cret \in { "True", "False" }
  /\ cpc = "l78" => Len(cout) = 6
  /\ cpc = "done" =>
       SubSeq(cout, 7, Len(cout)) =
         IF cret = "True" THEN Instructions ELSE << CMsg("incomplete", "") >>

C7_Witness ==
  /\ cpc = "done"
  /\ present = KeyFileSet \ { key_files[1] }
  /\ cret = "False"
  /\ cout[Len(cout)] = CMsg("incomplete", "")

====
